---- MODULE Spec2Model ----
\* Foodgram backend: the recipe collections (favorites / shopping cart), the
\* shopping-list aggregation and the recipe mutation serializer, modelled as
\* request handlers running against one shared relational store.
EXTENDS Integers, Sequences, FiniteSets, TLC

\* ---------------------------------------------------------------- bounds
NumUsers == 2
NumRecipes == 2
NumProcs == 2
NumIngredients == 2
NumTags == 2
MaxAmount == 2
MaxTagList == 2
MaxStored == 1
MaxListed == 2
MaxRows == 2
NumNames == 2
NumShortLinks == 2
AmountMargin == 1

\* ------------------------------------------------------- program constants
AMOUNT_MAX == 1000
AMOUNT_MIN == 0

HTTP_200_OK == 200
HTTP_201_CREATED == 201
HTTP_204_NO_CONTENT == 204
HTTP_400_BAD_REQUEST == 400
HTTP_401_UNAUTHORIZED == 401
HTTP_403_FORBIDDEN == 403
HTTP_404_NOT_FOUND == 404
HTTP_500_INTERNAL_SERVER_ERROR == 500

\* ------------------------------------------------------------ identifiers
Users == 1..NumUsers
AnonymousUser == 0
Requesters == Users \cup {AnonymousUser}
RecipeIds == 1..NumRecipes
IngredientIds == 1..NumIngredients
TagIds == 1..NumTags
Procs == 1..NumProcs
Names == 1..NumNames
ShortLinks == 1..NumShortLinks

\* The two collection models; each is served by its own view action.
Kinds == {"favorite", "shopping_cart"}

VARIABLES
    recipes,             \* Recipe table: the set of primary keys that exist
    recipe_author,       \* Recipe.author of each row
    recipe_name,         \* Recipe.name of each row (a scalar field)
    recipe_tags,         \* Recipe.tags through table: rows per (recipe, tag)
    recipe_ingredients,  \* RecipeIngredients rows of each recipe, insert order
    favorites,           \* FavoritesRecipe table: rows per (author, recipe)
    shoppingcart,        \* ShoppingCart table: rows per (author, recipe)
    subscriptions,       \* Subscriptions table: rows per (user, author)
    pc,                  \* position of each request handler
    req,                 \* the request each handler is serving
    resp                 \* the response each handler returned last

vars == <<recipes, recipe_author, recipe_name, recipe_tags,
          recipe_ingredients, favorites, shoppingcart, subscriptions,
          pc, req, resp>>

recipeVars == <<recipes, recipe_author, recipe_name, recipe_tags,
                recipe_ingredients>>
collVars == <<favorites, shoppingcart, subscriptions>>

\* ------------------------------------------------------------- reference data
\* Ingredient rows (bulk imported, immutable). name is unique; names are
\* ranked by an integer so that the alphabetical order is not the id order.
IngredientName(i) == NumIngredients + 1 - i
IngredientUnit(i) == IF i % 2 = 1 THEN "g" ELSE "ml"

\* Meta.verbose_name of the two collection models.
VerboseName(kind) == IF kind = "favorite" THEN "Izbrannoe" ELSE "Spisok pokupok"

\* ------------------------------------------------------------------ helpers
NoReq == [op |-> "none"]
NoResp == [status |-> 0]

RECURSIVE SumAmounts(_)
SumAmounts(rows) ==
    IF rows = <<>> THEN 0 ELSE Head(rows).amount + SumAmounts(Tail(rows))

\* Both serializers backed by the model of Favorites.
TableOfFavorites(kind) == favorites

Table(kind) == IF kind = "favorite" THEN favorites ELSE shoppingcart

\* A pre-check that never finds the row.
ExistsNever(kind, user, recipe) == FALSE

\* Model.objects.filter(author=user, recipe=recipe).exists()
Exists(kind, user, recipe) == Table(kind)[<<user, recipe>>] > 0

NoSubscriptions == [pair \in Users \X Users |-> 0]
EmptyTable == [pair \in Users \X RecipeIds |-> 0]

\* --------------------------------------------------------------- the store
\* A collection table declared without its UniqueConstraint.
UniqueConstraintMissing(table, pair) == TRUE

\* UniqueConstraint(fields=('author', 'recipe')) of FavoritesRecipe and of
\* ShoppingCart: an INSERT is accepted only when no row holds the pair.
UniqueConstraintAllows(table, pair) == table[pair] = 0

\* The ForeignKey of a collection row must reference a stored recipe.
ForeignKeyAllows(pair) == pair[2] \in recipes

\* Model.objects.create(author=..., recipe=...): one more row for the pair.
InsertRow(table, pair) == [table EXCEPT ![pair] = @ + 1]

\* A filter on the recipe alone: the rows of every user for it go.
DeleteRowsOfRecipe(table, pair) ==
    [row \in DOMAIN table |-> IF row[2] = pair[2] THEN 0 ELSE table[row]]

\* QuerySet.filter(author=..., recipe=...).delete(): every matching row goes.
DeleteRows(table, pair) == [table EXCEPT ![pair] = 0]

\* ------------------------------------------------------------- permissions
\* IsOwnerOrReadOnly.has_permission for a method outside SAFE_METHODS.
has_permission(user) == user # AnonymousUser

\* A lookup that takes every primary key for a stored recipe.
RecipeFoundAlways(pk) == TRUE

\* get_object_or_404(Recipe, pk=pk)
RecipeFound(pk) == pk \in recipes

\* ---------------------------------------------------------------- responses
Response(code) == [status |-> code]
ConflictResponse(kind) ==
    [status |-> HTTP_400_BAD_REQUEST, detail |-> VerboseName(kind)]

Ready(p) == pc[p] \in {"idle", "done"}

\* The handler returns r; its request object is gone with it.
Finish(p, r) ==
    /\ pc' = [pc EXCEPT ![p] = "done"]
    /\ resp' = [resp EXCEPT ![p] = r]
    /\ req' = [req EXCEPT ![p] = NoReq]

\* The handler moves on to its next statement, serving request rq.
Goto(p, label, rq) ==
    /\ pc' = [pc EXCEPT ![p] = label]
    /\ resp' = [resp EXCEPT ![p] = NoResp]
    /\ req' = [req EXCEPT ![p] = rq]

\* -------------------------------------------- collection service: add
\* RecipeViewSet.add_recipe up to the end of get_object_or_404: the
\* permission check of the dispatch and the recipe lookup.
add_recipe(p, kind, user, pk) ==
    /\ Ready(p)
    /\ IF ~has_permission(user)
         THEN Finish(p, Response(HTTP_401_UNAUTHORIZED))
         ELSE IF ~RecipeFound(pk)
                THEN Finish(p, Response(HTTP_404_NOT_FOUND))
                ELSE Goto(p, "is_valid",
                          [op |-> "add", kind |-> kind, user |-> user,
                           recipe |-> pk])
    /\ UNCHANGED <<recipeVars, collVars>>

\* POST recipes/{pk}/favorite/
favorite(p, user, pk) == add_recipe(p, "favorite", user, pk)

\* POST recipes/{pk}/shopping_cart/
shopping_cart(p, user, pk) == add_recipe(p, "shopping_cart", user, pk)

\* serializer.is_valid(raise_exception=True):
\* FavoritesShoppingCartSerializer.validate, the existence pre-check.
validate(p) ==
    /\ pc[p] = "is_valid"
    /\ IF Exists(req[p].kind, req[p].user, req[p].recipe)
         THEN Finish(p, ConflictResponse(req[p].kind))
         ELSE Goto(p, "save", req[p])
    /\ UNCHANGED <<recipeVars, collVars>>

\* serializer.save(author=self.request.user): the INSERT. A constraint the
\* store rejects raises IntegrityError, which nothing in the view catches.
save(p) ==
    /\ pc[p] = "save"
    /\ LET kind == req[p].kind
           pair == <<req[p].user, req[p].recipe>>
           ok == UniqueConstraintAllows(Table(kind), pair)
                     /\ ForeignKeyAllows(pair)
       IN /\ favorites' = IF ok /\ kind = "favorite"
                            THEN InsertRow(favorites, pair) ELSE favorites
          /\ shoppingcart' = IF ok /\ kind = "shopping_cart"
                               THEN InsertRow(shoppingcart, pair)
                               ELSE shoppingcart
          /\ Finish(p, IF ok THEN Response(HTTP_201_CREATED)
                             ELSE Response(HTTP_500_INTERNAL_SERVER_ERROR))
    /\ UNCHANGED <<recipeVars, subscriptions>>

\* ------------------------------------------ collection service: remove
\* A remove that reports success whatever the DELETE found.
DeleteStatusAlwaysOk(deleted_count) == HTTP_204_NO_CONTENT

\* The status delete_recipe answers with for a given deleted_count.
DeleteStatus(deleted_count) ==
    IF deleted_count = 0 THEN HTTP_400_BAD_REQUEST ELSE HTTP_204_NO_CONTENT

\* RecipeViewSet.delete_recipe: the permission check of the dispatch, the
\* recipe lookup, the one DELETE statement over the matching rows and the
\* response chosen from its deleted_count.
delete_recipe(p, kind, user, pk) ==
    /\ Ready(p)
    /\ IF ~has_permission(user)
         THEN /\ Finish(p, Response(HTTP_401_UNAUTHORIZED))
              /\ UNCHANGED collVars
         ELSE IF ~RecipeFound(pk)
                THEN /\ Finish(p, Response(HTTP_404_NOT_FOUND))
                     /\ UNCHANGED collVars
                ELSE LET pair == <<user, pk>>
                         deleted_count == Table(kind)[pair]
                     IN /\ favorites' = IF kind = "favorite"
                                          THEN DeleteRows(favorites, pair)
                                          ELSE favorites
                        /\ shoppingcart' = IF kind = "shopping_cart"
                                             THEN DeleteRows(shoppingcart, pair)
                                             ELSE shoppingcart
                        /\ Finish(p, Response(DeleteStatus(deleted_count)))
                        /\ UNCHANGED subscriptions
    /\ UNCHANGED recipeVars

\* DELETE recipes/{pk}/favorite/
delete_favorite(p, user, pk) == delete_recipe(p, "favorite", user, pk)

\* DELETE recipes/{pk}/shopping_cart/
delete_shopping_cart(p, user, pk) ==
    delete_recipe(p, "shopping_cart", user, pk)

\* ------------------------------------------------- shopping list aggregator
\* A key that puts every row in the same group.
GroupKeyOneGroup(row) == <<0, "">>

\* One row of the ingredient table joined to a junction row, as selected by
\* .values('ingredient__name', 'ingredient__measurement_unit').
GroupKey(row) ==
    <<IngredientName(row.ingredient), IngredientUnit(row.ingredient)>>

\* A filter on the cart without the author: a recipe joins when it is in
\* the cart of any user.
JoinCountAnyUser(user, r) ==
    IF \E u \in Users : shoppingcart[<<u, r>>] > 0 THEN 1 ELSE 0

\* filter(recipe__shoppingcart__author=user): the junction rows of recipe r
\* appear once for every ShoppingCart row that joins r to the user.
JoinCount(user, r) == shoppingcart[<<user, r>>]

\* The keys of the GROUP BY over the joined rows.
GroupKeys(user) ==
    {GroupKey(recipe_ingredients[r][k]) :
        <<r, k>> \in {rk \in recipes \X (1..NumIngredients) :
                         /\ JoinCount(user, rk[1]) > 0
                         /\ rk[2] <= Len(recipe_ingredients[rk[1]])}}

KeyRows(r, key) ==
    SelectSeq(recipe_ingredients[r], LAMBDA row : GroupKey(row) = key)

\* A total that keeps the amount of one recipe instead of adding them up.
RECURSIVE SumJoinedOneRecipe(_, _, _)
SumJoinedOneRecipe(user, key, r) ==
    IF r = 0 THEN 0
    ELSE IF r \in recipes /\ JoinCount(user, r) > 0 /\ KeyRows(r, key) # <<>>
           THEN SumAmounts(KeyRows(r, key))
           ELSE SumJoinedOneRecipe(user, key, r - 1)

RECURSIVE SumJoined(_, _, _)
SumJoined(user, key, r) ==
    IF r = 0 THEN 0
    ELSE (IF r \in recipes
            THEN JoinCount(user, r) * SumAmounts(KeyRows(r, key)) ELSE 0)
         + SumJoined(user, key, r - 1)

\* annotate(total_amount=Sum('amount')): one record per group.
Aggregate(user) ==
    {[ingredient__name |-> key[1],
      ingredient__measurement_unit |-> key[2],
      total_amount |-> SumJoined(user, key, NumRecipes)] :
        key \in GroupKeys(user)}

\* The query has no order_by and RecipeIngredients has no Meta.ordering:
\* the store may return the groups in any order.
Orderings(S) ==
    {f \in [1..Cardinality(S) -> S] :
        \A i, j \in 1..Cardinality(S) : i # j => f[i] # f[j]}

\* The plain-text answer of the empty branch, served to the requester.
EmptyListResponse(user) ==
    [status |-> HTTP_200_OK, body |-> "Vash spisok pokupok pust.",
     ingredients |-> <<>>, user |-> user]

\* The PDF rendered from the grouped rows, served to the requester.
PdfResponse(user, list) ==
    [status |-> HTTP_200_OK, body |-> "shopping_cart.pdf",
     ingredients |-> list, user |-> user]

\* A test that never takes the empty branch.
NoIngredientsNever(rows) == FALSE

\* 'if not ingredients': the queryset came back without a group.
NoIngredients(rows) == rows = {}

\* GET recipes/download_shopping_cart/ : a safe method, so has_permission
\* lets every requester in; the ORM cannot turn AnonymousUser into a key.
download_shopping_cart(p, user) ==
    /\ Ready(p)
    /\ IF user = AnonymousUser
         THEN Finish(p, Response(HTTP_500_INTERNAL_SERVER_ERROR))
         ELSE IF NoIngredients(Aggregate(user))
                THEN Finish(p, EmptyListResponse(user))
                ELSE \E list \in Orderings(Aggregate(user)) :
                        Finish(p, PdfResponse(user, list))
    /\ UNCHANGED <<recipeVars, collVars>>

\* ------------------------------------------------------------ initial states
\* A junction row as add_ingredients_to_recipe builds it: measurement_unit
\* is not passed to the constructor and keeps the CharField default ''.
JunctionRow(i, a) == [ingredient |-> i, amount |-> a, measurement_unit |-> ""]

SeedAuthor(r) == ((r - 1) % NumUsers) + 1
SeedName(r) == ((r - 1) % NumNames) + 1

SeedRows(r) ==
    IF r % 2 = 1
      THEN [i \in 1..NumIngredients |-> JunctionRow(i, ((i - 1) % MaxAmount) + 1)]
      ELSE <<JunctionRow(1, MaxAmount)>>

NoTags == [t \in TagIds |-> 0]
SeedTags(r) == [t \in TagIds |-> IF t = ((r - 1) % NumTags) + 1 THEN 1 ELSE 0]

InitProcs ==
    /\ pc = [p \in Procs |-> "idle"]
    /\ req = [p \in Procs |-> NoReq]
    /\ resp = [p \in Procs |-> NoResp]

InitRecipes(stored) ==
    /\ recipes = stored
    /\ recipe_author = [r \in RecipeIds |-> IF r \in stored THEN SeedAuthor(r) ELSE 0]
    /\ recipe_name = [r \in RecipeIds |-> IF r \in stored THEN SeedName(r) ELSE 0]
    /\ recipe_tags = [r \in RecipeIds |-> IF r \in stored THEN SeedTags(r) ELSE NoTags]
    /\ recipe_ingredients = [r \in RecipeIds |-> IF r \in stored THEN SeedRows(r) ELSE <<>>]

\* Recipes already published by their authors, empty collections, and no
\* request in flight.
Init ==
    /\ \E stored \in SUBSET RecipeIds :
          Cardinality(stored) <= MaxStored /\ InitRecipes(stored)
    /\ favorites = EmptyTable
    /\ shoppingcart = EmptyTable
    /\ subscriptions = NoSubscriptions
    /\ InitProcs

Next ==
    \/ \E p \in Procs, user \in Requesters, pk \in RecipeIds : favorite(p, user, pk)
    \/ \E p \in Procs, user \in Requesters, pk \in RecipeIds : shopping_cart(p, user, pk)
    \/ \E p \in Procs : validate(p)
    \/ \E p \in Procs : save(p)
    \/ \E p \in Procs, user \in Requesters, pk \in RecipeIds : delete_favorite(p, user, pk)
    \/ \E p \in Procs, user \in Requesters, pk \in RecipeIds : delete_shopping_cart(p, user, pk)

Spec == Init /\ [][Next]_vars

\* ------------------------------------------------- two adds racing (C2, C3)
\* Every handler has passed the permission check and the recipe lookup of
\* the same add request and is about to run the pre-check; the pair is in
\* neither state of the race yet, the rest of the store is arbitrary.
ZeroOne(stored) ==
    {t \in [Users \X RecipeIds -> {0, 1}] :
        \A pair \in Users \X RecipeIds : pair[2] \notin stored => t[pair] = 0}

InitRace ==
    \E stored \in SUBSET RecipeIds, kind \in Kinds, user \in Users,
       pk \in RecipeIds :
        /\ Cardinality(stored) <= MaxStored
        /\ pk \in stored
        /\ InitRecipes(stored)
        /\ favorites \in ZeroOne(stored)
        /\ shoppingcart \in ZeroOne(stored)
        /\ subscriptions = NoSubscriptions
        /\ Table(kind)[<<user, pk>>] = 0
        /\ pc = [p \in Procs |-> "is_valid"]
        /\ req = [p \in Procs |->
                     [op |-> "add", kind |-> kind, user |-> user,
                      recipe |-> pk]]
        /\ resp = [p \in Procs |-> NoResp]

NextRace ==
    \/ \E p \in Procs : validate(p)
    \/ \E p \in Procs : save(p)

SpecRace == InitRace /\ [][NextRace]_vars

\* ------------------------------------- one handler, cart and shopping list
\* The handler that serves the requests of the sequential specifications.
FirstProc == CHOOSE p \in Procs : \A q \in Procs : p <= q

\* The junction rows of a recipe whose request listed, in ascending id, the
\* ingredients i with amounts[i] > 0.
RECURSIVE RowsFrom(_, _)
RowsFrom(amounts, i) ==
    IF i > NumIngredients THEN <<>>
    ELSE (IF amounts[i] > 0 THEN <<JunctionRow(i, amounts[i])>> ELSE <<>>)
             \o RowsFrom(amounts, i + 1)

RowChoices ==
    {RowsFrom(amounts, 1) :
        amounts \in {a \in [IngredientIds -> 0..MaxAmount] :
                        \E i \in IngredientIds : a[i] > 0}}

\* Up to MaxListed published recipes with any valid junction rows, empty
\* collections, no request in flight.
InitList ==
    /\ \E stored \in SUBSET RecipeIds :
          /\ Cardinality(stored) <= MaxListed
          /\ recipes = stored
          /\ recipe_author = [r \in RecipeIds |->
                                 IF r \in stored THEN SeedAuthor(r) ELSE 0]
          /\ recipe_name = [r \in RecipeIds |->
                               IF r \in stored THEN SeedName(r) ELSE 0]
          /\ recipe_tags = [r \in RecipeIds |->
                               IF r \in stored THEN SeedTags(r) ELSE NoTags]
          /\ recipe_ingredients \in
                 {ri \in [RecipeIds -> RowChoices \cup {<<>>}] :
                     \A r \in RecipeIds : ri[r] = <<>> <=> r \notin stored}
    /\ favorites = EmptyTable
    /\ shoppingcart = EmptyTable
    /\ subscriptions = NoSubscriptions
    /\ InitProcs

NextList ==
    \/ \E user \in Requesters, pk \in RecipeIds :
          shopping_cart(FirstProc, user, pk)
    \/ validate(FirstProc)
    \/ save(FirstProc)
    \/ \E user \in Requesters, pk \in RecipeIds :
          delete_shopping_cart(FirstProc, user, pk)
    \/ \E user \in Requesters : download_shopping_cart(FirstProc, user)

SpecList == InitList /\ [][NextList]_vars

\* --------------------------------------------------- recipe mutation service
Range(seq) == {seq[k] : k \in DOMAIN seq}

\* The payload of a recipe request: the name, the tag ids, the ingredient
\* entries in the order sent, and whether an image came with it. A PATCH without
\* 'tags' or 'ingredients' is read by validate as one with an empty list.
TagLists == UNION {[1..n -> TagIds] : n \in 0..MaxTagList}
IngredientEntries == [id : IngredientIds, amount : 0..MaxAmount]
IngredientLists == UNION {[1..n -> IngredientEntries] : n \in 0..MaxRows}
Payloads ==
    [name : Names, tags : TagLists, ingredients : IngredientLists,
     image : BOOLEAN]

ValidationError(detail) == [status |-> HTTP_400_BAD_REQUEST, detail |-> detail]

\* The amounts a request may carry, taken around both ends of the range of
\* RecipeIngredients.amount, and the entries of a request as sent: an
\* entry may come without 'amount'.
AmountSamples ==
    ((0 - AmountMargin)..AmountMargin)
        \cup ((AMOUNT_MAX - AmountMargin)..(AMOUNT_MAX + AmountMargin))
RawEntries ==
    [id : IngredientIds, amount : AmountSamples] \cup [id : IngredientIds]
RawIngredientLists == UNION {[1..n -> RawEntries] : n \in 0..MaxRows}

HasAmount(entry) == "amount" \in DOMAIN entry

\* A serializer field without the validators of the model field.
AmountFieldAny(entry, partial) == TRUE

\* The 'amount' field RecipeIngredientSerializer builds from the model
\* field: an integer field with min_value AMOUNT_MIN and max_value
\* AMOUNT_MAX, required unless the root serializer is partial (PATCH).
AmountField(entry, partial) ==
    IF HasAmount(entry)
      THEN AMOUNT_MIN <= entry.amount /\ entry.amount <= AMOUNT_MAX
      ELSE partial

\* The field validation of every entry of 'ingredients'; it runs before
\* validate.
IngredientFieldsValid(data, partial) ==
    \A k \in DOMAIN data.ingredients : AmountField(data.ingredients[k], partial)

\* A loop that does not look for a repeated id.
RECURSIVE ValidateIngredientsNoRepeatCheck(_, _)
ValidateIngredientsNoRepeatCheck(ingredients, ingredient_ids) ==
    IF ingredients = <<>> THEN "ok"
    ELSE IF ~HasAmount(Head(ingredients)) \/ Head(ingredients).amount <= 0
           THEN "Nepravilnoe kolichestvo"
           ELSE ValidateIngredientsNoRepeatCheck(Tail(ingredients),
                    ingredient_ids)

\* A loop that takes any amount.
RECURSIVE ValidateIngredientsNoAmountCheck(_, _)
ValidateIngredientsNoAmountCheck(ingredients, ingredient_ids) ==
    IF ingredients = <<>> THEN "ok"
    ELSE IF Head(ingredients).id \in ingredient_ids
           THEN "uzhe dobavlen v recept"
           ELSE ValidateIngredientsNoAmountCheck(Tail(ingredients),
                    ingredient_ids \cup {Head(ingredients).id})

\* The loop of RecipeCreateSerializer.validate over the ingredient entries:
\* the first entry that repeats an id or has no amount or an amount that is
\* not positive decides.
RECURSIVE ValidateIngredients(_, _)
ValidateIngredients(ingredients, ingredient_ids) ==
    IF ingredients = <<>> THEN "ok"
    ELSE LET ingredient == Head(ingredients)
         IN IF ingredient.id \in ingredient_ids
              THEN "uzhe dobavlen v recept"
              ELSE IF ~HasAmount(ingredient) \/ ingredient.amount <= 0
                     THEN "Nepravilnoe kolichestvo"
                     ELSE ValidateIngredients(Tail(ingredients),
                              ingredient_ids \cup {ingredient.id})

\* A validate that goes straight to the ingredients.
RecipeValidateNoTagCheck(data) ==
    IF data.ingredients = <<>>
      THEN "V recepte ne vybrany ingredienty."
      ELSE ValidateIngredients(data.ingredients, {})

\* RecipeCreateSerializer.validate: "ok" or the message of the
\* ValidationError it raises.
RecipeValidate(data) ==
    IF data.tags = <<>>
      THEN "V recepte ne vybran teg."
      ELSE IF Len(data.tags) # Cardinality(Range(data.tags))
             THEN "Tegi ne dolzhny povtoryatsya."
             ELSE IF data.ingredients = <<>>
                    THEN "V recepte ne vybrany ingredienty."
                    ELSE ValidateIngredients(data.ingredients, {})

\* recipe.tags.set(tags): the through table gets one row per tag given.
TagsSet(tags) == [t \in TagIds |-> IF t \in Range(tags) THEN 1 ELSE 0]

\* RecipeCreateSerializer.add_ingredients_to_recipe: bulk_create of one
\* junction row per entry, in the order of the entries.
add_ingredients_to_recipe(ingredients) ==
    [k \in DOMAIN ingredients |->
        JunctionRow(ingredients[k].id, ingredients[k].amount)]

\* An object permission that lets every authenticated user write.
AnyoneMayWrite(user, pk) == TRUE

\* IsOwnerOrReadOnly.has_object_permission for a method outside SAFE_METHODS.
has_object_permission(user, pk) == recipe_author[pk] = user

\* POST recipes/ : what the dispatch, is_valid (the required image, then
\* validate) answer before anything is written, or 201.
CreateResponse(user, data) ==
    IF ~has_permission(user) THEN Response(HTTP_401_UNAUTHORIZED)
    ELSE IF ~data.image THEN ValidationError("image")
    ELSE IF ~IngredientFieldsValid(data, FALSE) THEN ValidationError("amount")
    ELSE IF RecipeValidate(data) # "ok"
           THEN ValidationError(RecipeValidate(data))
           ELSE Response(HTTP_201_CREATED)

\* The recipe tables as one value, and the assignment of such a value.
Store ==
    [recipes |-> recipes, author |-> recipe_author, name |-> recipe_name,
     tags |-> recipe_tags, ingredients |-> recipe_ingredients]

Commit(s) ==
    /\ recipes' = s.recipes
    /\ recipe_author' = s.author
    /\ recipe_name' = s.name
    /\ recipe_tags' = s.tags
    /\ recipe_ingredients' = s.ingredients

\* Recipe.objects.create(author=..., **validated_data)
ObjectsCreate(s, id, user, data) ==
    [s EXCEPT !.recipes = @ \cup {id}, !.author[id] = user,
              !.name[id] = data.name]

\* recipe.tags.set(tags): afterwards the recipe has exactly the tags given.
TagsSetOn(s, id, tags) == [s EXCEPT !.tags[id] = TagsSet(tags)]

\* bulk_create adds the new junction rows to those the recipe has.
BulkCreate(s, id, ingredients) ==
    [s EXCEPT !.ingredients[id] = @ \o add_ingredients_to_recipe(ingredients)]

\* The writes of RecipeCreateSerializer.create, in order.
CreateSteps == 3

\* The store after the first n writes of create.
CreateWrites(s, user, data, id, n) ==
    LET s1 == ObjectsCreate(s, id, user, data)
        s2 == TagsSetOn(s1, id, data.tags)
        s3 == BulkCreate(s2, id, data.ingredients)
    IN IF n = 0 THEN s ELSE IF n = 1 THEN s1 ELSE IF n = 2 THEN s2 ELSE s3

\* A decorator that keeps what was written before the exception.
NotAtomic(before, partial) == partial

\* @transaction.atomic when the decorated method raises: the writes made so
\* far are rolled back.
Atomic(before, partial) == before

\* POST recipes/ : RecipeCreateSerializer.create runs in one transaction.
\* id is the primary key the store gives the new row.
create(p, user, data, id) ==
    /\ Ready(p)
    /\ id \notin recipes
    /\ Finish(p, CreateResponse(user, data))
    /\ IF CreateResponse(user, data).status = HTTP_201_CREATED
         THEN Commit(CreateWrites(Store, user, data, id, CreateSteps))
         ELSE UNCHANGED recipeVars
    /\ UNCHANGED collVars

\* POST recipes/ with valid data when the store raises in write number
\* step of create: the exception leaves the atomic block and the handler
\* answers 500.
create_fails(p, user, data, id, step) ==
    /\ Ready(p)
    /\ id \notin recipes
    /\ CreateResponse(user, data).status = HTTP_201_CREATED
    /\ Finish(p, Response(HTTP_500_INTERNAL_SERVER_ERROR))
    /\ Commit(Atomic(Store, CreateWrites(Store, user, data, id, step - 1)))
    /\ UNCHANGED collVars

\* PATCH recipes/{pk}/ : what the dispatch, get_object with the object
\* permission and is_valid answer before anything is written, or 200.
UpdateResponse(user, pk, data) ==
    IF ~has_permission(user) THEN Response(HTTP_401_UNAUTHORIZED)
    ELSE IF ~RecipeFound(pk) THEN Response(HTTP_404_NOT_FOUND)
    ELSE IF ~has_object_permission(user, pk) THEN Response(HTTP_403_FORBIDDEN)
    ELSE IF ~IngredientFieldsValid(data, TRUE) THEN ValidationError("amount")
    ELSE IF RecipeValidate(data) # "ok"
           THEN ValidationError(RecipeValidate(data))
           ELSE Response(HTTP_200_OK)

\* A clear that leaves the junction rows in place.
IngredientsKeep(s, pk) == s

\* instance.ingredients.clear()
IngredientsClear(s, pk) == [s EXCEPT !.ingredients[pk] = <<>>]

\* instance.tags.clear()
TagsClear(s, pk) == [s EXCEPT !.tags[pk] = NoTags]

\* super().update(instance, validated_data): the scalar fields are
\* assigned and saved, then the many-to-many field tags is set again.
SuperUpdate(s, pk, data) ==
    TagsSetOn([s EXCEPT !.name[pk] = data.name], pk, data.tags)

\* The writes of RecipeCreateSerializer.update, in order.
UpdateSteps == 5

\* The store after the first n writes of update.
UpdateWrites(s, pk, data, n) ==
    LET s1 == IngredientsClear(s, pk)
        s2 == TagsClear(s1, pk)
        s3 == TagsSetOn(s2, pk, data.tags)
        s4 == BulkCreate(s3, pk, data.ingredients)
        s5 == SuperUpdate(s4, pk, data)
    IN IF n = 0 THEN s ELSE IF n = 1 THEN s1 ELSE IF n = 2 THEN s2
       ELSE IF n = 3 THEN s3 ELSE IF n = 4 THEN s4 ELSE s5

\* PATCH recipes/{pk}/ : RecipeCreateSerializer.update clears both
\* association sets and writes the new ones in one transaction.
update(p, user, pk, data) ==
    /\ Ready(p)
    /\ Finish(p, UpdateResponse(user, pk, data))
    /\ IF UpdateResponse(user, pk, data).status = HTTP_200_OK
         THEN Commit(UpdateWrites(Store, pk, data, UpdateSteps))
         ELSE UNCHANGED recipeVars
    /\ UNCHANGED collVars

\* PATCH recipes/{pk}/ with valid data when the store raises in write
\* number step of update.
update_fails(p, user, pk, data, step) ==
    /\ Ready(p)
    /\ UpdateResponse(user, pk, data).status = HTTP_200_OK
    /\ Finish(p, Response(HTTP_500_INTERNAL_SERVER_ERROR))
    /\ Commit(Atomic(Store, UpdateWrites(Store, pk, data, step - 1)))
    /\ UNCHANGED collVars

\* DELETE recipes/{pk}/ : what the dispatch and get_object with the object
\* permission answer, or 204.
DestroyResponse(user, pk) ==
    IF ~has_permission(user) THEN Response(HTTP_401_UNAUTHORIZED)
    ELSE IF ~RecipeFound(pk) THEN Response(HTTP_404_NOT_FOUND)
    ELSE IF ~has_object_permission(user, pk) THEN Response(HTTP_403_FORBIDDEN)
    ELSE Response(HTTP_204_NO_CONTENT)

\* The Recipe row is deleted with its tag associations and, through
\* on_delete=CASCADE of RecipeIngredients.recipe, its junction rows.
DeleteRecipe(s, pk) ==
    [s EXCEPT !.recipes = @ \ {pk}, !.author[pk] = 0, !.name[pk] = 0,
              !.tags[pk] = NoTags, !.ingredients[pk] = <<>>]

\* A delete that leaves the rows that reference the recipe.
CascadeKeep(table, pk) == table

\* on_delete=CASCADE of RecipeRelationModel.recipe: the rows of the table
\* that reference the recipe go with it.
Cascade(table, pk) ==
    [pair \in DOMAIN table |-> IF pair[2] = pk THEN 0 ELSE table[pair]]

\* DELETE recipes/{pk}/ : instance.delete() collects and deletes the
\* recipe and everything that cascades from it in one transaction.
destroy(p, user, pk) ==
    /\ Ready(p)
    /\ Finish(p, DestroyResponse(user, pk))
    /\ IF DestroyResponse(user, pk).status = HTTP_204_NO_CONTENT
         THEN /\ Commit(DeleteRecipe(Store, pk))
              /\ favorites' = Cascade(favorites, pk)
              /\ shoppingcart' = Cascade(shoppingcart, pk)
         ELSE UNCHANGED <<recipeVars, favorites, shoppingcart>>
    /\ UNCHANGED subscriptions

\* The payloads that pass every check of the serializer.
ValidPayloads ==
    {data \in Payloads :
        /\ data.image
        /\ data.tags # <<>>
        /\ \A j, k \in DOMAIN data.tags : j # k => data.tags[j] # data.tags[k]
        /\ data.ingredients # <<>>
        /\ \A j, k \in DOMAIN data.ingredients :
               j # k => data.ingredients[j].id # data.ingredients[k].id
        /\ \A k \in DOMAIN data.ingredients : data.ingredients[k].amount > 0}

\* An empty store; one handler creates up to MaxStored recipes and updates
\* them.
InitRecipe ==
    /\ InitRecipes({})
    /\ favorites = EmptyTable
    /\ shoppingcart = EmptyTable
    /\ subscriptions = NoSubscriptions
    /\ InitProcs

NextRecipe ==
    \/ \E user \in Requesters, data \in Payloads, id \in RecipeIds :
          Cardinality(recipes) < MaxStored /\ create(FirstProc, user, data, id)
    \/ \E user \in Requesters, data \in Payloads, pk \in RecipeIds :
          update(FirstProc, user, pk, data)
    \/ \E user \in Users, data \in ValidPayloads, id \in RecipeIds,
          step \in 1..CreateSteps :
          /\ Cardinality(recipes) < MaxStored
          /\ create_fails(FirstProc, user, data, id, step)
    \/ \E user \in Users, data \in ValidPayloads, pk \in RecipeIds,
          step \in 1..UpdateSteps :
          update_fails(FirstProc, user, pk, data, step)
    \/ \E user \in Requesters, pk \in RecipeIds : destroy(FirstProc, user, pk)

SpecRecipe == InitRecipe /\ [][NextRecipe]_vars

\* Recipe requests whose ingredient entries carry amounts from both ends
\* of the range, or none; the other fields are valid.
AmountPayloads ==
    [name : {1}, tags : {<<1>>}, ingredients : RawIngredientLists,
     image : {TRUE}]

NextAmount ==
    \/ \E user \in Requesters, data \in AmountPayloads, id \in RecipeIds :
          Cardinality(recipes) < MaxStored /\ create(FirstProc, user, data, id)
    \/ \E user \in Requesters, data \in AmountPayloads, pk \in RecipeIds :
          update(FirstProc, user, pk, data)

SpecAmount == InitRecipe /\ [][NextAmount]_vars

\* ------------------------------------------------------------------ claims
\* ---------------------------------------------------------------- short links
\* GET recipes/{pk}/get-link/ : a safe method, open to every requester.
\* get_object answers 404 for a missing recipe. The handler then reads
\* recipe.short_link, but class Recipe declares no such field (only its
\* docstring names one), so the read raises AttributeError before a token
\* is generated, checked or saved, and the handler answers 500.
get_link(p, user, pk) ==
    /\ Ready(p)
    /\ IF ~RecipeFound(pk)
         THEN Finish(p, Response(HTTP_404_NOT_FOUND))
         ELSE Finish(p, Response(HTTP_500_INTERNAL_SERVER_ERROR))
    /\ UNCHANGED <<recipeVars, collVars>>

\* GET s/{short_link}/ : get_object_or_404(Recipe, short_link=...) filters
\* on a field the model does not have; the ORM raises FieldError, which
\* get_object_or_404 does not turn into 404, and the handler answers 500.
retrieve_by_short_link(p, user, short_link) ==
    /\ Ready(p)
    /\ Finish(p, Response(HTTP_500_INTERNAL_SERVER_ERROR))
    /\ UNCHANGED <<recipeVars, collVars>>

\* The collection requests of Next together with the short-link requests.
NextLink ==
    \/ Next
    \/ \E p \in Procs, user \in Requesters, pk \in RecipeIds :
          get_link(p, user, pk)
    \/ \E p \in Procs, user \in Requesters, short_link \in ShortLinks :
          retrieve_by_short_link(p, user, short_link)

SpecLink == Init /\ [][NextLink]_vars

\* ------------------------------------------------- recipe delete and cascade
\* The collection requests of Next together with recipe deletes and
\* shopping-list downloads, all running concurrently.
NextCascade ==
    \/ Next
    \/ \E p \in Procs, user \in Requesters, pk \in RecipeIds :
          destroy(p, user, pk)
    \/ \E p \in Procs, user \in Requesters : download_shopping_cart(p, user)

SpecCascade == Init /\ [][NextCascade]_vars

\* -------------------------------------------------------------- subscriptions
\* The ids a subscribe request can name: those of the users and one that
\* no user has.
UserIds == 1..(NumUsers + 1)

\* get_object_or_404(User, id=id)
UserFound(id) == id \in Users

\* A validate_author that lets every author through.
ValidateAuthorAny(user, author) == TRUE

\* UserSubscriptionsSerializer.validate_author: TRUE when it returns the
\* author, FALSE when it raises ValidationError.
validate_author(user, author) == user # author

\* UniqueTogetherValidator on (author, user)
UniqueTogetherAllows(pair) == subscriptions[pair] = 0

\* CheckConstraint check_subscriber: ~Q(user=F('author'))
CheckConstraintAllows(pair) == pair[1] # pair[2]

\* POST users/{id}/subscribe/ : IsAuthenticated, then the lookup of the
\* author; the serializer's checks and its save are later steps.
add_subscribe(p, user, id) ==
    /\ Ready(p)
    /\ IF user = AnonymousUser
         THEN Finish(p, Response(HTTP_401_UNAUTHORIZED))
         ELSE IF ~UserFound(id)
                THEN Finish(p, Response(HTTP_404_NOT_FOUND))
                ELSE Goto(p, "subscribe_is_valid",
                          [op |-> "subscribe", user |-> user, author |-> id])
    /\ UNCHANGED <<recipeVars, collVars>>

\* serializer.is_valid(raise_exception=True): validate_author runs with the
\* field, the UniqueTogetherValidator after all fields.
subscribe_is_valid(p) ==
    /\ pc[p] = "subscribe_is_valid"
    /\ IF ~validate_author(req[p].user, req[p].author)
         THEN Finish(p, ValidationError("Vy pytaetes podpisatsya na samogo sebya."))
         ELSE IF ~UniqueTogetherAllows(<<req[p].user, req[p].author>>)
                THEN Finish(p, ValidationError("Vy uzhe podpisany na etogo polzovatelya."))
                ELSE Goto(p, "subscribe_save", req[p])
    /\ UNCHANGED <<recipeVars, collVars>>

\* serializer.save(user=request.user): one INSERT; a row the constraints
\* of the table reject raises IntegrityError, which the view does not catch.
subscribe_save(p) ==
    /\ pc[p] = "subscribe_save"
    /\ LET pair == <<req[p].user, req[p].author>>
           ok == CheckConstraintAllows(pair)
                     /\ UniqueConstraintAllows(subscriptions, pair)
       IN /\ subscriptions' = IF ok THEN InsertRow(subscriptions, pair)
                                    ELSE subscriptions
          /\ Finish(p, IF ok THEN Response(HTTP_201_CREATED)
                             ELSE Response(HTTP_500_INTERNAL_SERVER_ERROR))
    /\ UNCHANGED <<recipeVars, favorites, shoppingcart>>

\* DELETE users/{id}/subscribe/ : the DELETE statement and the response
\* chosen from its count.
unsubcribe(p, user, id) ==
    /\ Ready(p)
    /\ IF user = AnonymousUser
         THEN /\ Finish(p, Response(HTTP_401_UNAUTHORIZED))
              /\ UNCHANGED subscriptions
         ELSE IF ~UserFound(id)
                THEN /\ Finish(p, Response(HTTP_404_NOT_FOUND))
                     /\ UNCHANGED subscriptions
                ELSE LET pair == <<user, id>>
                         subscription_deleted == subscriptions[pair]
                     IN /\ subscriptions' = DeleteRows(subscriptions, pair)
                        /\ Finish(p, IF subscription_deleted = 0
                                       THEN [status |-> HTTP_400_BAD_REQUEST,
                                             detail |-> "Podpiska ne najdena."]
                                       ELSE Response(HTTP_204_NO_CONTENT))
    /\ UNCHANGED <<recipeVars, favorites, shoppingcart>>

\* No recipe, no subscription, no request in flight.
InitSubscribe ==
    /\ InitRecipes({})
    /\ favorites = EmptyTable
    /\ shoppingcart = EmptyTable
    /\ subscriptions = NoSubscriptions
    /\ InitProcs

NextSubscribe ==
    \/ \E p \in Procs, user \in Requesters, id \in UserIds :
          add_subscribe(p, user, id)
    \/ \E p \in Procs : subscribe_is_valid(p)
    \/ \E p \in Procs : subscribe_save(p)
    \/ \E p \in Procs, user \in Requesters, id \in UserIds :
          unsubcribe(p, user, id)

SpecSubscribe == InitSubscribe /\ [][NextSubscribe]_vars

\* -------------------------------------------------------------------- claims
AllDone == \A p \in Procs : pc[p] = "done"
Created == {p \in Procs : resp[p].status = HTTP_201_CREATED}

\* C1: in every reachable state, under any interleaving of add and remove
\* requests, Favorites and Cart each hold at most one row per
\* (user, recipe) pair.
C1_OneEntryPerPair ==
    \A pair \in Users \X RecipeIds :
        favorites[pair] <= 1 /\ shoppingcart[pair] <= 1

\* An insert is pending for a pair whose row another request has stored.
C1_Witness ==
    \E p \in Procs :
        /\ pc[p] = "save"
        /\ Table(req[p].kind)[<<req[p].user, req[p].recipe>>] = 1

\* C2: when concurrent adds of one (kind, user, recipe) pair that was absent
\* have all returned, exactly one of them answered 201 and exactly one row
\* for the pair is stored.
C2_ExactlyOneSuccess ==
    [][\A p \in Procs :
          (pc[p] # "done" /\ AllDone') =>
              /\ Cardinality(Created') = 1
              /\ (IF req[p].kind = "favorite"
                    THEN favorites' ELSE shoppingcart')
                     [<<req[p].user, req[p].recipe>>] = 1]_vars

\* Both requests passed the pre-check before either inserted.
C2_Witness ==
    /\ AllDone
    /\ \E p \in Procs : resp[p].status = HTTP_500_INTERNAL_SERVER_ERROR
    /\ \E p \in Procs : resp[p].status = HTTP_201_CREATED

\* C3: an add that passed the pre-check and then loses the race at the
\* uniqueness constraint answers with the Conflict of the pre-check, never
\* with an uncaught store error: every racing add ends in 201 or Conflict.
C3_RaceLoserGetsConflict ==
    \A p \in Procs :
        pc[p] = "done" =>
            \/ resp[p].status = HTTP_201_CREATED
            \/ resp[p] \in {ConflictResponse(kind) : kind \in Kinds}

\* C4: an add whose pre-check finds the pair stored answers with the
\* conflict naming the collection and leaves the single stored row as it
\* is; an add that meets no row for the pair goes on to insert, answers 201
\* and leaves exactly one row.
C4_SecondAddConflicts ==
    [][\A p \in Procs :
          LET kind == req[p].kind
              pair == <<req[p].user, req[p].recipe>>
          IN /\ (pc[p] = "is_valid" /\ pc'[p] # "is_valid") =>
                    IF Table(kind)[pair] > 0
                      THEN /\ resp'[p] = ConflictResponse(kind)
                           /\ resp'[p].detail = VerboseName(kind)
                           /\ Table(kind)[pair] = 1
                           /\ UNCHANGED collVars
                      ELSE pc'[p] = "save"
             /\ (pc[p] = "save" /\ pc'[p] # "save"
                               /\ Table(kind)[pair] = 0) =>
                    /\ resp'[p] = Response(HTTP_201_CREATED)
                    /\ (IF kind = "favorite"
                          THEN favorites' ELSE shoppingcart')[pair] = 1]_vars

\* A second add was answered with the conflict while the first one's row
\* is stored.
C4_Witness ==
    \E p \in Procs, kind \in Kinds :
        /\ resp[p] = ConflictResponse(kind)
        /\ \E pair \in Users \X RecipeIds : Table(kind)[pair] = 1

\* The step, if it is one of handler p, takes p from Ready to done.
Answers(p) ==
    /\ Ready(p)
    /\ pc'[p] = "done"
    /\ \A q \in Procs \ {p} : pc'[q] = pc[q] /\ resp'[q] = resp[q]

\* C5: remove by an authenticated user on a stored recipe answers 204
\* exactly when a row for (user, recipe) was stored and this call deleted
\* it; with no such row it answers 400 and the store is unchanged.
C5_RemoveReportsDeletion ==
    [][\A p \in Procs :
          Answers(p) =>
              \A kind \in Kinds, user \in Users, pk \in recipes :
                  delete_recipe(p, kind, user, pk) =>
                      LET pair == <<user, pk>>
                          after == IF kind = "favorite"
                                     THEN favorites' ELSE shoppingcart'
                      IN /\ resp'[p].status = HTTP_204_NO_CONTENT
                                <=> (Table(kind)[pair] > 0 /\ after[pair] = 0)
                         /\ Table(kind)[pair] = 0 =>
                                /\ resp'[p] = Response(HTTP_400_BAD_REQUEST)
                                /\ UNCHANGED collVars]_vars

\* One remove deleted a row and another found nothing to remove.
C5_Witness ==
    \E p, q \in Procs :
        /\ resp[p] = Response(HTTP_204_NO_CONTENT)
        /\ resp[q] = Response(HTTP_400_BAD_REQUEST)

\* C6: add and remove by an authenticated user on a recipe id that is not
\* stored answer 404 and change no Favorites or Cart row.
C6_MissingRecipeNotFound ==
    [][\A p \in Procs :
          Answers(p) =>
              \A kind \in Kinds, user \in Users, pk \in RecipeIds \ recipes :
                  (add_recipe(p, kind, user, pk)
                      \/ delete_recipe(p, kind, user, pk)) =>
                      /\ resp'[p] = Response(HTTP_404_NOT_FOUND)
                      /\ UNCHANGED collVars]_vars

\* A request on a missing recipe was answered while a collection holds a
\* row of a stored one.
C6_Witness ==
    /\ \E p \in Procs : resp[p] = Response(HTTP_404_NOT_FOUND)
    /\ \E pair \in Users \X RecipeIds : favorites[pair] + shoppingcart[pair] > 0

\* The recipes in the user's cart and the ingredients they use.
CartRecipes(user) == {r \in recipes : shoppingcart[<<user, r>>] > 0}

CartIngredients(user) ==
    {i \in IngredientIds :
        \E r \in CartRecipes(user) :
            \E k \in DOMAIN recipe_ingredients[r] :
                recipe_ingredients[r][k].ingredient = i}

RECURSIVE AmountIn(_, _)
AmountIn(rows, i) ==
    IF rows = <<>> THEN 0
    ELSE (IF Head(rows).ingredient = i THEN Head(rows).amount ELSE 0)
             + AmountIn(Tail(rows), i)

RECURSIVE TotalOver(_, _)
TotalOver(rs, i) ==
    IF rs = {} THEN 0
    ELSE LET r == CHOOSE x \in rs : TRUE
         IN AmountIn(recipe_ingredients[r], i) + TotalOver(rs \ {r}, i)

IsBuild(r) == "ingredients" \in DOMAIN r

\* C7: the shopping list built for a user has exactly one entry per
\* ingredient used by a recipe of the user's cart, and the entry's
\* total_amount is the sum of that ingredient's junction-row amounts over
\* the recipes of the cart.
C7_OneSummedEntryPerIngredient ==
    [][\A user \in Users :
          download_shopping_cart(FirstProc, user) =>
              LET list == resp'[FirstProc].ingredients
              IN /\ Len(list) = Cardinality(CartIngredients(user))
                 /\ \A i \in CartIngredients(user) :
                        \E k \in 1..Len(list) :
                            /\ list[k].ingredient__name = IngredientName(i)
                            /\ list[k].ingredient__measurement_unit
                                   = IngredientUnit(i)
                            /\ list[k].total_amount
                                   = TotalOver(CartRecipes(user), i)]_vars

\* A list was built over a cart of two recipes that share an ingredient.
C7_Witness ==
    /\ IsBuild(resp[FirstProc])
    /\ LET user == resp[FirstProc].user
       IN /\ Cardinality(CartRecipes(user)) = 2
          /\ \E i \in IngredientIds :
                /\ \A r \in CartRecipes(user) :
                      AmountIn(recipe_ingredients[r], i) > 0
                /\ \E k \in 1..Len(resp[FirstProc].ingredients) :
                      resp[FirstProc].ingredients[k].total_amount
                          = TotalOver(CartRecipes(user), i)

\* C8: building the list of a user whose cart is empty answers with the
\* defined empty result, never with an error, also when the user has added
\* recipes before and removed them again.
C8_EmptyCartEmptyResult ==
    [][\A user \in Users :
          (download_shopping_cart(FirstProc, user)
              /\ \A r \in RecipeIds : shoppingcart[<<user, r>>] = 0) =>
              /\ resp'[FirstProc] = EmptyListResponse(user)
              /\ resp'[FirstProc].status = HTTP_200_OK]_vars

\* The empty result was served to a user with no cart row while a recipe
\* is stored.
C8_Witness ==
    \E user \in Users :
        /\ resp[FirstProc] = EmptyListResponse(user)
        /\ recipes # {}
        /\ \A r \in RecipeIds : shoppingcart[<<user, r>>] = 0

\* C9: two builds for the same user over the same cart and the same recipe
\* and ingredient rows return the entries in the same order. The handler's
\* previous response is still the build for this user, so nothing was
\* written between the two builds.
C9_StableOrder ==
    [][\A user \in Users :
          (/\ download_shopping_cart(FirstProc, user)
           /\ IsBuild(resp[FirstProc])
           /\ resp[FirstProc].user = user) =>
              resp'[FirstProc].ingredients = resp[FirstProc].ingredients]_vars

BadTags(tags) == tags = <<>> \/ \E j, k \in DOMAIN tags : j # k /\ tags[j] = tags[k]

TagErrors ==
    {ValidationError("V recepte ne vybran teg."),
     ValidationError("Tegi ne dolzhny povtoryatsya.")}

\* C10: after any sequence of accepted and rejected recipe creates and
\* updates, every stored recipe has at least one tag and no tag twice; a
\* create, or an update by the author, whose tag list is empty or repeats
\* an id is answered with a validation error, and a request answered with
\* a validation error writes nothing.
C10_TagsNonEmptyNoDuplicates ==
    /\ [](\A r \in recipes :
             /\ \E t \in TagIds : recipe_tags[r][t] >= 1
             /\ \A t \in TagIds : recipe_tags[r][t] <= 1)
    /\ [](\A user \in Users, data \in Payloads :
             BadTags(data.tags) =>
                 /\ CreateResponse(user, data).status = HTTP_400_BAD_REQUEST
                 /\ data.image => CreateResponse(user, data) \in TagErrors
                 /\ \A pk \in recipes :
                        has_object_permission(user, pk) =>
                            UpdateResponse(user, pk, data) \in TagErrors)
    /\ [][resp'[FirstProc].status = HTTP_400_BAD_REQUEST =>
             UNCHANGED <<recipeVars, collVars>>]_vars

\* A stored recipe carries two tags after an update, and the handler has
\* just turned a request down for its tags.
C10_Witness ==
    /\ \E r \in recipes : \A t \in TagIds : recipe_tags[r][t] = 1
    /\ resp[FirstProc] = ValidationError("Tegi ne dolzhny povtoryatsya.")

\* The junction rows of recipe r that reference ingredient i.
RowsOf(r, i) ==
    {k \in DOMAIN recipe_ingredients[r] :
        recipe_ingredients[r][k].ingredient = i}

BadIngredients(ingredients) ==
    \/ ingredients = <<>>
    \/ \E j, k \in DOMAIN ingredients :
          j # k /\ ingredients[j].id = ingredients[k].id

\* C11: after any sequence of recipe creates and updates, every stored
\* recipe has at least one junction row and no two junction rows of one
\* recipe reference the same ingredient; a create, or an update by the
\* author, whose ingredient list is empty or repeats an id is answered with
\* a validation error.
C11_IngredientsNonEmptyNoDuplicates ==
    /\ [](\A r \in recipes :
             /\ Len(recipe_ingredients[r]) >= 1
             /\ \A i \in IngredientIds : Cardinality(RowsOf(r, i)) <= 1)
    /\ [](\A user \in Users, data \in Payloads :
             BadIngredients(data.ingredients) =>
                 /\ CreateResponse(user, data).status = HTTP_400_BAD_REQUEST
                 /\ \A pk \in recipes :
                        has_object_permission(user, pk) =>
                            UpdateResponse(user, pk, data).status
                                = HTTP_400_BAD_REQUEST)

\* A stored recipe has two junction rows, and the handler has just turned
\* a request down for a repeated ingredient.
C11_Witness ==
    /\ \E r \in recipes : Len(recipe_ingredients[r]) = 2
    /\ resp[FirstProc] = ValidationError("uzhe dobavlen v recept")

\* What validate turns down in a payload: no tag, a repeated tag, no
\* ingredient, a repeated ingredient, an amount that is not positive.
InvalidData(data) ==
    \/ BadTags(data.tags)
    \/ BadIngredients(data.ingredients)
    \/ \E k \in DOMAIN data.ingredients : data.ingredients[k].amount <= 0

C13_AtomicCreateUpdate ==
    [][resp'[FirstProc].status = HTTP_500_INTERNAL_SERVER_ERROR =>
          /\ recipes' = recipes
          /\ \A r \in RecipeIds :
                /\ recipe_author'[r] = recipe_author[r]
                /\ recipe_name'[r] = recipe_name[r]
                /\ recipe_tags'[r] = recipe_tags[r]
                /\ recipe_ingredients'[r] = recipe_ingredients[r]]_vars

\* An update of a stored recipe failed in the store.
C13_Witness ==
    /\ recipes # {}
    /\ resp[FirstProc] = Response(HTTP_500_INTERNAL_SERVER_ERROR)

\* The (ingredient, amount) pairs of a request and of the rows of a recipe.
EntryPairs(ingredients) ==
    {<<ingredients[k].id, ingredients[k].amount>> : k \in DOMAIN ingredients}

RowPairs(rows) == {<<rows[k].ingredient, rows[k].amount>> : k \in DOMAIN rows}

\* C14: a successful update replaces the association sets: whatever the
\* recipe holds, the update the author's valid request commits leaves it
\* with exactly the request's ingredients and amounts, one junction row
\* each, and with exactly the request's tag ids.
C14_UpdateReplaces ==
    \A pk \in recipes, data \in Payloads :
        UpdateResponse(recipe_author[pk], pk, data).status = HTTP_200_OK =>
            LET after == UpdateWrites(Store, pk, data, UpdateSteps)
            IN /\ RowPairs(after.ingredients[pk])
                      = EntryPairs(data.ingredients)
               /\ Len(after.ingredients[pk]) = Len(data.ingredients)
               /\ \A t \in TagIds :
                      after.tags[pk][t]
                          = (IF t \in Range(data.tags) THEN 1 ELSE 0)
               /\ \A r \in RecipeIds \ {pk} :
                      /\ after.ingredients[r] = recipe_ingredients[r]
                      /\ after.tags[r] = recipe_tags[r]

\* An update was committed and left the recipe with one junction row and
\* one tag.
C14_Witness ==
    /\ resp[FirstProc].status = HTTP_200_OK
    /\ \E r \in recipes :
          /\ Len(recipe_ingredients[r]) = 1
          /\ \E t \in TagIds : recipe_tags[r][t] = 0

\* A response that carries a short link.
HasToken(r) == "short_link" \in DOMAIN r

\* C15: get_link on a stored recipe answers with the recipe's token, and
\* when the handler's previous answer was the token of the same recipe,
\* the token is the same one.
C15_TokenStable ==
    [][\A p \in Procs :
          Answers(p) =>
              \A user \in Requesters, pk \in recipes :
                  get_link(p, user, pk) =>
                      /\ resp'[p].status = HTTP_200_OK
                      /\ HasToken(resp'[p])
                      /\ (HasToken(resp[p]) /\ resp[p].recipe = pk) =>
                             resp'[p].short_link = resp[p].short_link]_vars

C17_ResolveExact ==
    [][\A p \in Procs :
          Answers(p) =>
              \A user \in Requesters, short_link \in ShortLinks :
                  retrieve_by_short_link(p, user, short_link) =>
                      IF \E q \in Procs :
                             HasToken(resp[q]) /\ resp[q].short_link = short_link
                        THEN /\ resp'[p].status = HTTP_200_OK
                             /\ \E q \in Procs :
                                    /\ HasToken(resp[q])
                                    /\ resp[q].short_link = short_link
                                    /\ resp'[p].recipe = resp[q].recipe
                        ELSE resp'[p] = Response(HTTP_404_NOT_FOUND)]_vars

\* C18: no Subscriptions row has the subscriber as its author, and a
\* subscribe request of a user to themselves ends at the serializer's
\* check with a validation error and writes no row.
C18_NoSelfSubscription ==
    /\ [](\A user \in Users : subscriptions[<<user, user>>] = 0)
    /\ [][\A p \in Procs :
             (/\ pc[p] = "subscribe_is_valid"
              /\ req[p].user = req[p].author
              /\ pc'[p] # pc[p]) =>
                 /\ pc'[p] = "done"
                 /\ resp'[p] = ValidationError("Vy pytaetes podpisatsya na samogo sebya.")
                 /\ subscriptions' = subscriptions]_vars

\* A user's subscription to themselves was turned down while that user
\* follows another one.
C18_Witness ==
    \E p \in Procs, user \in Users :
        /\ resp[p] = ValidationError("Vy pytaetes podpisatsya na samogo sebya.")
        /\ \E author \in Users \ {user} : subscriptions[<<user, author>>] = 1

Refused == {HTTP_401_UNAUTHORIZED, HTTP_403_FORBIDDEN}

\* C19: an update or delete of a stored recipe requested by anyone but its
\* author, authenticated or not, is answered 401 or 403, and a request
\* answered so leaves the recipe, its tags and its junction rows as they
\* were.
C19_OnlyAuthorMutates ==
    /\ [](\A user \in Requesters, pk \in recipes :
             user # recipe_author[pk] =>
                 /\ DestroyResponse(user, pk).status \in Refused
                 /\ \A data \in Payloads :
                        UpdateResponse(user, pk, data).status \in Refused)
    /\ [][resp'[FirstProc].status \in Refused =>
             UNCHANGED <<recipeVars, collVars>>]_vars
    /\ [][\A pk \in recipes :
             (pk \notin recipes'
                \/ recipe_tags'[pk] # recipe_tags[pk]
                \/ recipe_ingredients'[pk] # recipe_ingredients[pk]
                \/ recipe_name'[pk] # recipe_name[pk]) =>
                 resp'[FirstProc].status \in {HTTP_200_OK, HTTP_204_NO_CONTENT}]_vars

\* A user who is not the author was refused while the recipe is stored.
C19_Witness ==
    /\ resp[FirstProc] = Response(HTTP_403_FORBIDDEN)
    /\ recipes # {}

\* C20: no junction row, tag association, Favorites row or Cart row
\* references a recipe that is not stored, and a shopping list built
\* after a delete has entries only for the ingredients of the stored
\* recipes of the cart, with their totals.
C20_DeleteCascades ==
    /\ [](\A r \in RecipeIds \ recipes :
             /\ recipe_ingredients[r] = <<>>
             /\ recipe_tags[r] = NoTags
             /\ \A user \in Users :
                    favorites[<<user, r>>] = 0 /\ shoppingcart[<<user, r>>] = 0)
    /\ [][\A p \in Procs :
             Answers(p) =>
                 \A user \in Users :
                     download_shopping_cart(p, user) =>
                         LET list == resp'[p].ingredients
                         IN \A k \in 1..Len(list) :
                                \E i \in CartIngredients(user) :
                                    /\ list[k].ingredient__name = IngredientName(i)
                                    /\ list[k].total_amount
                                           = TotalOver(CartRecipes(user), i)]_vars

\* An insert into a collection is pending for a recipe that was deleted
\* after the handler looked it up.
C20_Witness ==
    \E p \in Procs :
        /\ pc[p] = "save"
        /\ req[p].recipe \notin recipes

\* The entries of a request that the claim says must be refused.
BadAmount(entry) ==
    \/ ~HasAmount(entry)
    \/ entry.amount < 1
    \/ entry.amount > AMOUNT_MAX

\* C21: every stored junction row has an amount in 1..AMOUNT_MAX, and a
\* create or update by a user allowed to make it whose entries include one
\* with amount 0, a negative amount, no amount or an amount above
\* AMOUNT_MAX is answered with a validation error (400).
C21_AmountInRange ==
    /\ \A r \in recipes : \A k \in DOMAIN recipe_ingredients[r] :
           /\ recipe_ingredients[r][k].amount >= 1
           /\ recipe_ingredients[r][k].amount <= AMOUNT_MAX
    /\ \A data \in AmountPayloads :
           (\E k \in DOMAIN data.ingredients : BadAmount(data.ingredients[k])) =>
               /\ \A user \in Users :
                      CreateResponse(user, data).status = HTTP_400_BAD_REQUEST
               /\ \A pk \in recipes :
                      UpdateResponse(recipe_author[pk], pk, data).status
                          = HTTP_400_BAD_REQUEST

\* A recipe holds a row with the largest amount and a later request was
\* refused for its amount.
C21_Witness ==
    /\ resp[FirstProc] = ValidationError("amount")
    /\ \E r \in recipes : \E k \in DOMAIN recipe_ingredients[r] :
           recipe_ingredients[r][k].amount = AMOUNT_MAX

\* C22: the junction rows of every recipe written by create or update are
\* stored in ascending order of ingredient name, whatever the order of the
\* entries in the request.
C22_RowsSortedByName ==
    \A r \in recipes : \A j, k \in DOMAIN recipe_ingredients[r] :
        j < k => IngredientName(recipe_ingredients[r][j].ingredient)
                   < IngredientName(recipe_ingredients[r][k].ingredient)

\* C30: every junction row written by create or update carries the
\* measurement unit of the ingredient it references.
C30_UnitCopied ==
    \A r \in recipes : \A k \in DOMAIN recipe_ingredients[r] :
        recipe_ingredients[r][k].measurement_unit
            = IngredientUnit(recipe_ingredients[r][k].ingredient)

\* The shopping list grouped by ingredient id: one entry per ingredient of
\* the cart's recipes, shown with the ingredient's name and unit.
GroupedById(user) ==
    {[ingredient__name |-> IngredientName(i),
      ingredient__measurement_unit |-> IngredientUnit(i),
      total_amount |-> TotalOver(CartRecipes(user), i)] :
        i \in CartIngredients(user)}

NamesUnique ==
    \A i, j \in IngredientIds :
        i # j => IngredientName(i) # IngredientName(j)

\* C23: when ingredient names are unique, grouping the cart's junction
\* rows by (ingredient name, measurement unit) gives the same entries and
\* totals as grouping them by ingredient id, one entry per ingredient.
C23_GroupingMatchesIdentity ==
    NamesUnique =>
        \A user \in Users :
            /\ Aggregate(user) = GroupedById(user)
            /\ Cardinality(Aggregate(user)) = Cardinality(CartIngredients(user))

\* A cart of two recipes that share one ingredient and use two in all.
C23_Witness ==
    \E user \in Users :
        /\ Cardinality(CartRecipes(user)) = 2
        /\ Cardinality(Aggregate(user)) = 2
        /\ \E i \in IngredientIds :
               \A r \in CartRecipes(user) : AmountIn(recipe_ingredients[r], i) > 0

\* C24: a get_link call on a stored recipe answers with a token, and when
\* another handler, possibly running at the same time, was answered with a
\* token for the same recipe, both hold the same token.
C24_ConcurrentSameToken ==
    [][\A p \in Procs :
          Answers(p) =>
              \A user \in Requesters, pk \in recipes :
                  get_link(p, user, pk) =>
                      /\ HasToken(resp'[p])
                      /\ \A q \in Procs \ {p} :
                             (HasToken(resp[q]) /\ resp[q].recipe = pk) =>
                                 resp[q].short_link = resp'[p].short_link]_vars

\* C29: a get_link call on a stored recipe comes to an end with a token of
\* the fixed length for that recipe: after generating one when the recipe
\* had none, at once when it had one.
C29_GenerationTerminates ==
    [][\A p \in Procs :
          Answers(p) =>
              \A user \in Requesters, pk \in recipes :
                  get_link(p, user, pk) =>
                      /\ resp'[p].status = HTTP_200_OK
                      /\ HasToken(resp'[p])
                      /\ resp'[p].recipe = pk
                      /\ resp'[p].short_link \in ShortLinks]_vars

\* C25: there is at most one Subscriptions row per (user, author); a
\* subscribe that ends while a row for its pair is stored, whether the row
\* was there before the request or came from a concurrent one, answers
\* with a client error (400) and adds no row; an unsubscribe that finds no
\* row answers 400 and changes nothing.
C25_SubscribeConflict ==
    /\ [](\A pair \in DOMAIN subscriptions : subscriptions[pair] <= 1)
    /\ [][\A p \in Procs :
             (/\ pc[p] \in {"subscribe_is_valid", "subscribe_save"}
              /\ pc'[p] = "done"
              /\ subscriptions[<<req[p].user, req[p].author>>] > 0) =>
                 /\ resp'[p].status = HTTP_400_BAD_REQUEST
                 /\ subscriptions' = subscriptions]_vars
    /\ [][\A p \in Procs :
             Answers(p) =>
                 \A user \in Users, id \in Users :
                     (unsubcribe(p, user, id) /\ subscriptions[<<user, id>>] = 0) =>
                         /\ resp'[p].status = HTTP_400_BAD_REQUEST
                         /\ subscriptions' = subscriptions]_vars

\* The Favorites and Cart rows of everyone but the user are as before.
OthersUnchanged(user) ==
    \A pair \in Users \X RecipeIds :
        pair[1] # user =>
            /\ favorites'[pair] = favorites[pair]
            /\ shoppingcart'[pair] = shoppingcart[pair]

\* C26: the insert of an add and the delete of a remove touch only rows
\* whose author is the requesting user, whoever wrote the recipe; an add or
\* remove by an unauthenticated requester is answered 401 and changes no
\* row.
C26_CallerOnly ==
    [][\A p \in Procs :
          /\ (pc[p] = "save" /\ pc'[p] = "done") => OthersUnchanged(req[p].user)
          /\ Answers(p) =>
                 \A kind \in Kinds, user \in Requesters, pk \in RecipeIds :
                     (add_recipe(p, kind, user, pk)
                         \/ delete_recipe(p, kind, user, pk)) =>
                         /\ OthersUnchanged(user)
                         /\ user = AnonymousUser =>
                                /\ resp'[p].status = HTTP_401_UNAUTHORIZED
                                /\ UNCHANGED <<favorites, shoppingcart>>]_vars

\* A user removed a recipe from their Favorites and the row of another
\* user for the same recipe, not written by that user, is still there.
C26_Witness ==
    \E p \in Procs, r \in recipes, u \in Users, v \in Users :
        /\ u # v
        /\ resp[p].status = HTTP_204_NO_CONTENT
        /\ favorites[<<u, r>>] = 0
        /\ favorites[<<v, r>>] = 1
        /\ recipe_author[r] # v

\* The rows a request of the kind may read or write, and those of the
\* other kind.
OwnRows(kind) == IF kind = "favorite" THEN favorites ELSE shoppingcart
OtherRowsUnchanged(kind) ==
    IF kind = "favorite" THEN shoppingcart' = shoppingcart
                         ELSE favorites' = favorites

\* C27: an add or remove on one kind leaves every row of the other kind
\* as it was, and the outcome of an add depends on the rows of its own
\* kind only: with no row of its kind for the pair the pre-check lets it
\* through and the insert answers 201, whatever the other kind holds.
C27_KindsIndependent ==
    [][\A p \in Procs :
          /\ (pc[p] = "is_valid" /\ pc'[p] # "is_valid") =>
                 /\ UNCHANGED <<favorites, shoppingcart>>
                 /\ OwnRows(req[p].kind)[<<req[p].user, req[p].recipe>>] = 0 =>
                        pc'[p] = "save"
          /\ (pc[p] = "save" /\ pc'[p] = "done") =>
                 /\ OtherRowsUnchanged(req[p].kind)
                 /\ (/\ OwnRows(req[p].kind)[<<req[p].user, req[p].recipe>>] = 0
                     /\ req[p].recipe \in recipes) =>
                        resp'[p].status = HTTP_201_CREATED
          /\ Answers(p) =>
                 \A kind \in Kinds, user \in Requesters, pk \in RecipeIds :
                     (add_recipe(p, kind, user, pk)
                         \/ delete_recipe(p, kind, user, pk)) =>
                         OtherRowsUnchanged(kind)]_vars

\* A recipe is in a user's Favorites and Cart at once: the second add to
\* Favorites was a conflict, the add to the Cart went through.
C27_Witness ==
    \E p \in Procs, q \in Procs, u \in Users, r \in recipes :
        /\ favorites[<<u, r>>] = 1
        /\ shoppingcart[<<u, r>>] = 1
        /\ resp[p] = ConflictResponse("favorite")
        /\ resp[q].status = HTTP_201_CREATED

\* The user's Cart rows and the recipe tables are as before.
SameCartAndRecipes(user) ==
    /\ \A r \in RecipeIds : shoppingcart'[<<user, r>>] = shoppingcart[<<user, r>>]
    /\ UNCHANGED recipeVars

\* C28: a step that leaves a user's Cart rows and the recipes as they
\* were, whatever it does to the Cart rows of other users and to the
\* Favorites of anyone, leaves the grouped rows of the user's shopping list
\* as they were; and building the list serves an ordering of those rows
\* and changes no row of the store.
C28_ListDependsOnOwnCart ==
    /\ [][\A user \in Users :
             SameCartAndRecipes(user) => Aggregate(user)' = Aggregate(user)]_vars
    /\ [][\A p \in Procs :
             Answers(p) =>
                 \A user \in Users :
                     download_shopping_cart(p, user) =>
                         /\ UNCHANGED <<recipeVars, collVars>>
                         /\ Range(resp'[p].ingredients) = Aggregate(user)]_vars

\* A list with entries was served to a user who also has a Favorites row
\* while another user has a Cart row.
C28_Witness ==
    \E p \in Procs, u \in Users, v \in Users, r \in recipes :
        /\ u # v
        /\ IsBuild(resp[p])
        /\ resp[p].user = u
        /\ Len(resp[p].ingredients) > 0
        /\ favorites[<<u, r>>] = 1
        /\ shoppingcart[<<v, r>>] = 1

====
